---------------------------- MODULE Spec2Model ----------------------------
(***************************************************************************)
(* The CSS selector builder of src/src/05-objects-tasks.js: the class      *)
(* SelectoCss, the facade cssSelectorBuilder and its combine(); and the    *)
(* functions Rectangle and fromJSON of the same file.                      *)
(*                                                                         *)
(* JavaScript strings are TLA+ strings, template literals and += are \o,   *)
(* arrays are sequences (JS index 0 is TLA+ index 1), objects live in a    *)
(* heap and are named by their index in it, and a method is an operator    *)
(* from the heap, the receiver and the argument to the heap afterwards,    *)
(* the error thrown ("" when none) and the reference returned.             *)
(***************************************************************************)
EXTENDS Integers, Sequences, FiniteSets, TLC

VARIABLES
    heap,       \* the objects created with new so far, by reference 1..Len(heap)
    combined,   \* the objects combine() has returned so far
    log,        \* log[i]: the calls made on object i, each with its outcome
    made,       \* made[c]: the combine() call that returned combined object c
    last        \* the most recent call: what was called, on what, and its result

vars == <<heap, combined, log, made, last>>

-----------------------------------------------------------------------------
(* Bounds of the exploration *)

\* calls (the facade call included) a client makes on one builder
MaxCalls == 3
\* builders of the two-client specification, and the calls they make in all
MaxBuilders == 2
MaxIsoCalls == 3
\* calls of a client that keeps to the documented order
MaxLegal == 7
\* combined selectors, and the builder and combine() calls made in all
MaxCombined == 2
MaxCombOps == 4
\* Rectangle objects, and the members of a JSON text
MaxRects == 2
MaxMembers == 2

\* argument values: the empty string (falsy in JavaScript) and two others
Values == {"", "a", "b"}
NonEmpty == Values \ {""}
IsoValues == {"", "a"}

\* the calls and the combinator tokens of the client that combines selectors
CombKinds == {"element", "class"}
CombValues == {"a"}
Tokens == {" ", "+", "x"}

\* the numbers and the keys of the client of Rectangle and fromJSON
Numbers == {10, 20}
Keys == {"width", "height"}

-----------------------------------------------------------------------------
(* The six kinds of selector part, in the order of the error message *)

Kinds == <<"element", "id", "class", "attr", "pseudoClass", "pseudoElement">>

KindSet == {Kinds[k] : k \in DOMAIN Kinds}

rank(op) == (CHOOSE k \in DOMAIN Kinds : Kinds[k] = op) - 1

Singletons == {"element", "id", "pseudoElement"}

DuplicateError ==
    "Element, id and pseudo-element should not occur more then one time inside the selector"

OrderError ==
    "Selector parts should be arranged in the following order: element, id, class, attribute, pseudo-class, pseudo-element"

-----------------------------------------------------------------------------
(* JavaScript truthiness of the values the guards test *)

\* if (s), s a string: every string but '' is truthy
Truthy(s) == s # ""

\* if (arr[0]): undefined (empty array) and '' are falsy
Truthy0(arr) == Len(arr) > 0 /\ Truthy(arr[1])

-----------------------------------------------------------------------------
(* class SelectoCss *)

\* constructor(value = ''), as the facade calls it: new SelectoCss()
constructor ==
    [ elementTag           |-> "",
      elementId            |-> "",
      elementClasses       |-> <<>>,
      elementAttr          |-> <<>>,
      elementPseudoClasses |-> <<>>,
      elementPseudoElement |-> "",
      mean                 |-> "" ]

\* throw new Error(msg): the heap as it is when the error leaves the method
Throw(h, msg) == [heap |-> h, thrown |-> msg, ret |-> 0]

\* a variant of Return: return a copy of this, not this
Return_copy(h, ref) ==
    [heap |-> Append(h, h[ref]), thrown |-> "", ret |-> Len(h) + 1]

\* return this
Return(h, ref) == [heap |-> h, thrown |-> "", ret |-> ref]

\* a variant of element: the order test comes before the duplicate test
element_orderFirst(h, self, value) ==
    IF \/ Truthy(h[self].elementId)
       \/ Truthy0(h[self].elementClasses)
       \/ Truthy0(h[self].elementAttr)
       \/ Truthy0(h[self].elementPseudoClasses)
       \/ Truthy(h[self].elementPseudoElement)
    THEN Throw(h, OrderError)
    ELSE IF Truthy(h[self].elementTag) THEN Throw(h, DuplicateError)
    ELSE Return([h EXCEPT ![self].elementTag = value], self)

element(h, self, value) ==
    IF Truthy(h[self].elementTag) THEN Throw(h, DuplicateError)
    ELSE IF \/ Truthy(h[self].elementId)
            \/ Truthy0(h[self].elementClasses)
            \/ Truthy0(h[self].elementAttr)
            \/ Truthy0(h[self].elementPseudoClasses)
            \/ Truthy(h[self].elementPseudoElement)
         THEN Throw(h, OrderError)
    ELSE Return([h EXCEPT ![self].elementTag = value], self)

id(h, self, value) ==
    IF Truthy(h[self].elementId) THEN Throw(h, DuplicateError)
    ELSE IF \/ Truthy0(h[self].elementClasses)
            \/ Truthy0(h[self].elementAttr)
            \/ Truthy0(h[self].elementPseudoClasses)
            \/ Truthy(h[self].elementPseudoElement)
         THEN Throw(h, OrderError)
    ELSE Return([h EXCEPT ![self].elementId = value], self)

\* a variant of class: the test of elementAttr[0] is left out
class_noAttrTest(h, self, value) ==
    IF \/ Truthy0(h[self].elementPseudoClasses)
       \/ Truthy(h[self].elementPseudoElement)
    THEN Throw(h, OrderError)
    ELSE Return([h EXCEPT ![self].elementClasses = Append(@, value)], self)

class(h, self, value) ==
    IF \/ Truthy0(h[self].elementAttr)
       \/ Truthy0(h[self].elementPseudoClasses)
       \/ Truthy(h[self].elementPseudoElement)
    THEN Throw(h, OrderError)
    ELSE Return([h EXCEPT ![self].elementClasses = Append(@, value)], self)

\* a variant of attr: push first, test afterwards
attr_pushFirst(h, self, value) ==
    LET h2 == [h EXCEPT ![self].elementAttr = Append(@, value)] IN
    IF \/ Truthy0(h[self].elementPseudoClasses)
       \/ Truthy(h[self].elementPseudoElement)
    THEN Throw(h2, OrderError)
    ELSE Return(h2, self)

attr(h, self, value) ==
    IF \/ Truthy0(h[self].elementPseudoClasses)
       \/ Truthy(h[self].elementPseudoElement)
    THEN Throw(h, OrderError)
    ELSE Return([h EXCEPT ![self].elementAttr = Append(@, value)], self)

\* a variant of pseudoClass: the test of elementPseudoElement is left out
pseudoClass_noTest(h, self, value) ==
    Return([h EXCEPT ![self].elementPseudoClasses = Append(@, value)], self)

\* a variant of pseudoClass: unshift instead of push
pseudoClass_unshift(h, self, value) ==
    IF Truthy(h[self].elementPseudoElement) THEN Throw(h, OrderError)
    ELSE Return([h EXCEPT ![self].elementPseudoClasses = <<value>> \o @], self)

pseudoClass(h, self, value) ==
    IF Truthy(h[self].elementPseudoElement) THEN Throw(h, OrderError)
    ELSE Return([h EXCEPT ![self].elementPseudoClasses = Append(@, value)], self)

\* a variant of pseudoElement: an order test copied from the other methods
pseudoElement_orderTest(h, self, value) ==
    IF Truthy(h[self].elementPseudoElement) THEN Throw(h, DuplicateError)
    ELSE IF Truthy0(h[self].elementPseudoClasses) THEN Throw(h, OrderError)
    ELSE Return([h EXCEPT ![self].elementPseudoElement = value], self)

\* a variant of pseudoElement: no test, the value is overwritten
pseudoElement_overwrite(h, self, value) ==
    Return([h EXCEPT ![self].elementPseudoElement = value], self)

pseudoElement(h, self, value) ==
    IF Truthy(h[self].elementPseudoElement) THEN Throw(h, DuplicateError)
    ELSE Return([h EXCEPT ![self].elementPseudoElement = value], self)

\* arr.forEach((x) => { res += `${pre}${x}${post}`; })
RECURSIVE forEach(_, _, _, _)
forEach(res, arr, pre, post) ==
    IF arr = <<>> THEN res
    ELSE forEach(res \o pre \o Head(arr) \o post, Tail(arr), pre, post)

\* a variant of stringify: the pseudo-element is written with one colon
stringify_oneColon(h, self) ==
    LET o  == h[self]
        r1 == IF Truthy(o.elementTag) THEN "" \o o.elementTag ELSE ""
        r2 == IF Truthy(o.elementId) THEN r1 \o "#" \o o.elementId ELSE r1
        r3 == forEach(r2, o.elementClasses, ".", "")
        r4 == forEach(r3, o.elementAttr, "[", "]")
        r5 == forEach(r4, o.elementPseudoClasses, ":", "")
        r6 == IF Truthy(o.elementPseudoElement)
              THEN r5 \o ":" \o o.elementPseudoElement ELSE r5
    IN  [heap |-> h, thrown |-> "", res |-> r6]

\* a variant of stringify: the classes are consumed (shift()) while rendered
stringify_shift(h, self) ==
    LET o  == h[self]
        r1 == o.elementTag \o forEach("", o.elementClasses, ".", "")
    IN  [heap |-> [h EXCEPT ![self].elementClasses = <<>>], thrown |-> "",
         res |-> r1]

\* stringify(): reads the fields, writes none, returns res
stringify(h, self) ==
    LET o  == h[self]
        r1 == IF Truthy(o.elementTag) THEN "" \o o.elementTag ELSE ""
        r2 == IF Truthy(o.elementId) THEN r1 \o "#" \o o.elementId ELSE r1
        r3 == IF Truthy0(o.elementClasses)
              THEN forEach(r2, o.elementClasses, ".", "") ELSE r2
        r4 == IF Truthy0(o.elementAttr)
              THEN forEach(r3, o.elementAttr, "[", "]") ELSE r3
        r5 == IF Truthy0(o.elementPseudoClasses)
              THEN forEach(r4, o.elementPseudoClasses, ":", "") ELSE r4
        r6 == IF Truthy(o.elementPseudoElement)
              THEN r5 \o "::" \o o.elementPseudoElement ELSE r5
    IN  [heap |-> h, thrown |-> "", res |-> r6]

\* obj[op](value) for the six mutating methods
Invoke(op, h, self, value) ==
    CASE op = "element"       -> element(h, self, value)
      [] op = "id"            -> id(h, self, value)
      [] op = "class"         -> class(h, self, value)
      [] op = "attr"          -> attr(h, self, value)
      [] op = "pseudoClass"   -> pseudoClass(h, self, value)
      [] op = "pseudoElement" -> pseudoElement(h, self, value)

-----------------------------------------------------------------------------
(* const cssSelectorBuilder: the facade *)

\* a variant of New: one builder object kept by the facade and handed out again
New_shared(h) ==
    IF h = <<>> THEN [heap |-> Append(h, constructor), ref |-> Len(h) + 1]
    ELSE [heap |-> h, ref |-> 1]

\* new SelectoCss(): a fresh object at the next free reference
New(h) == [heap |-> Append(h, constructor), ref |-> Len(h) + 1]

\* cssSelectorBuilder[op](value): return new SelectoCss()[op](value)
Facade(op, h, value) ==
    LET n == New(h) IN Invoke(op, n.heap, n.ref, value)

\* a variant of combine_stringify: the result is put in parentheses
combine_stringify_grouped(o) ==
    "(" \o o.firstSel \o " " \o o.combine \o " " \o o.secondtSel \o ")"

\* a variant of combine_stringify: the parts are joined without the spaces
combine_stringify_tight(o) ==
    o.firstSel \o o.combine \o o.secondtSel

\* stringify() of the object combine() returns
combine_stringify(o) ==
    o.firstSel \o " " \o o.combine \o " " \o o.secondtSel

\* selector.stringify(), selector a SelectoCss object or an object combine()
\* returned
Stringify(h, cs, selector) ==
    IF selector.kind = "builder" THEN stringify(h, selector.ref)
    ELSE [heap |-> h, thrown |-> "", res |-> combine_stringify(cs[selector.ref])]

\* a variant of combine: one result object, kept by the facade and written
\* again by every call
combine_reuse(h, cs, selector1, token, selector2) ==
    LET s1 == Stringify(h, cs, selector1)
        s2 == Stringify(s1.heap, cs, selector2)
        o  == [firstSel |-> s1.res, secondtSel |-> s2.res, combine |-> token]
    IN  IF cs = <<>>
        THEN [heap |-> s2.heap, combined |-> <<o>>, thrown |-> "", ret |-> 1]
        ELSE [heap |-> s2.heap, combined |-> [cs EXCEPT ![1] = o],
              thrown |-> "", ret |-> 1]

\* combine(selector1, combine, selector2): both operands are rendered, first
\* selector1, and the strings are kept in a new object
combine(h, cs, selector1, token, selector2) ==
    LET s1 == Stringify(h, cs, selector1)
        s2 == Stringify(s1.heap, cs, selector2)
        o  == [firstSel |-> s1.res, secondtSel |-> s2.res, combine |-> token]
    IN  IF s1.thrown # "" THEN [heap |-> s1.heap, combined |-> cs,
                                thrown |-> s1.thrown, ret |-> 0]
        ELSE IF s2.thrown # "" THEN [heap |-> s2.heap, combined |-> cs,
                                     thrown |-> s2.thrown, ret |-> 0]
        ELSE [heap |-> s2.heap, combined |-> Append(cs, o), thrown |-> "",
              ret |-> Len(cs) + 1]

-----------------------------------------------------------------------------
(* function Rectangle, and the JavaScript values its fields can hold *)

Num(n) == [type |-> "number", val |-> n]
Undefined == [type |-> "undefined"]
NaN == [type |-> "NaN"]

\* a * b: the product of two numbers, NaN when an operand is undefined or NaN
times(a, b) ==
    IF a.type = "number" /\ b.type = "number" THEN Num(a.val * b.val) ELSE NaN

\* new Rectangle(width, height): the fields, and the scope of the call that
\* the arrow function getArea closes over
Rectangle(h, width, height) ==
    [ heap |-> Append(h, [ width  |-> width,
                           height |-> height,
                           scope  |-> [width |-> width, height |-> height] ]),
      thrown |-> "",
      ret |-> Len(h) + 1 ]

\* a variant of getArea: () => width * height, the parameters of the call
getArea_params(h, self) ==
    [ heap |-> h, thrown |-> "",
      res |-> times(h[self].scope.width, h[self].scope.height) ]

\* this.getArea = () => this.width * this.height
getArea(h, self) ==
    [ heap |-> h, thrown |-> "",
      res |-> times(h[self].width, h[self].height) ]

-----------------------------------------------------------------------------
(* function fromJSON.  A JSON text is modelled by what it denotes: an      *)
(* object with its members as written, null, or no JSON value at all       *)

\* the index of the member of obj with the key key, 0 when there is none
IndexOf(obj, key) ==
    IF \E k \in DOMAIN obj : obj[k].key = key
    THEN CHOOSE k \in DOMAIN obj : obj[k].key = key
    ELSE 0

\* JSON.parse of an object text: the members in the order written; a key
\* written again keeps its place and takes the later value
RECURSIVE ParseMembers(_, _)
ParseMembers(obj, members) ==
    IF members = <<>> THEN obj
    ELSE LET m == Head(members)
             k == IndexOf(obj, m.key)
         IN  ParseMembers(IF k = 0 THEN Append(obj, m)
                          ELSE [obj EXCEPT ![k].value = m.value],
                          Tail(members))

\* JSON.parse(json)
JSON_parse(json) ==
    CASE json.kind = "malformed" -> [thrown |-> "SyntaxError", obj |-> <<>>]
      [] json.kind = "null"      -> [thrown |-> "", obj |-> "null"]
      [] json.kind = "object"    ->
            [thrown |-> "", obj |-> ParseMembers(<<>>, json.members)]

\* Object.values(obj): the values in the order of the keys; null has none
Object_values(obj) ==
    IF obj = "null" THEN [thrown |-> "TypeError", values |-> <<>>]
    ELSE [thrown |-> "", values |-> [k \in DOMAIN obj |-> obj[k].value]]

\* the n-th argument of a call with the arguments values
Arg(values, n) == IF n <= Len(values) THEN values[n] ELSE Undefined

\* the value of the property key of obj
Prop(obj, key) ==
    IF IndexOf(obj, key) = 0 THEN Undefined ELSE obj[IndexOf(obj, key)].value

\* a variant of fromJSON: the constructor is given the properties by name
fromJSON_byName(h, proto, json) ==
    LET parsed == JSON_parse(json) IN
    IF parsed.thrown # "" THEN Throw(h, parsed.thrown)
    ELSE IF parsed.obj = "null" THEN Throw(h, "TypeError")
    ELSE Rectangle(h, Prop(parsed.obj, "width"), Prop(parsed.obj, "height"))

\* fromJSON(proto, json), proto being Rectangle.prototype
fromJSON(h, proto, json) ==
    LET parsed == JSON_parse(json) IN
    IF parsed.thrown # "" THEN Throw(h, parsed.thrown)
    ELSE LET vals == Object_values(parsed.obj) IN
         IF vals.thrown # "" THEN Throw(h, vals.thrown)
         ELSE Rectangle(h, Arg(vals.values, 1), Arg(vals.values, 2))

-----------------------------------------------------------------------------
(* The state after loading the module: no object exists, nothing was called *)

NoCall ==
    [ op |-> "none", self |-> 0, value |-> "", thrown |-> "", ret |-> 0,
      res |-> "", pre |-> <<>>, cpre |-> <<>> ]

Init ==
    /\ heap = <<>>
    /\ combined = <<>>
    /\ log = <<>>
    /\ made = <<>>
    /\ last = NoCall

\* the log after a call on object ref left the heap h2: one (possibly empty)
\* entry list per object of h2, the call appended to ref's
Logged(lg, h2, ref, entry) ==
    LET padded == lg \o [k \in 1..(Len(h2) - Len(lg)) |-> <<>>]
    IN  IF ref \in 1..Len(padded)
        THEN [padded EXCEPT ![ref] = Append(@, entry)]
        ELSE padded

\* a client calls cssSelectorBuilder[op](v)
FacadeCall(op, v) ==
    LET r == Facade(op, heap, v) IN
    /\ heap' = r.heap
    /\ log' = Logged(log, r.heap, r.ret,
                     [op |-> op, value |-> v, thrown |-> r.thrown])
    /\ last' = [ op |-> op, self |-> 0, value |-> v, thrown |-> r.thrown,
                 ret |-> r.ret, res |-> "", pre |-> heap, cpre |-> combined ]
    /\ UNCHANGED <<combined, made>>

\* a client calls heap[i][op](v) on a builder it holds
MethodCall(i, op, v) ==
    LET r == Invoke(op, heap, i, v) IN
    /\ heap' = r.heap
    /\ log' = Logged(log, r.heap, i,
                     [op |-> op, value |-> v, thrown |-> r.thrown])
    /\ last' = [ op |-> op, self |-> i, value |-> v, thrown |-> r.thrown,
                 ret |-> r.ret, res |-> "", pre |-> heap, cpre |-> combined ]
    /\ UNCHANGED <<combined, made>>

\* a client calls heap[i].stringify()
StringifyCall(i) ==
    LET r == stringify(heap, i) IN
    /\ heap' = r.heap
    /\ last' = [ op |-> "stringify", self |-> i, value |-> "",
                 thrown |-> r.thrown, ret |-> 0, res |-> r.res, pre |-> heap,
                 cpre |-> combined ]
    /\ UNCHANGED <<combined, log, made>>

\* the selectors a client can hold: builders and combined selectors
Builder(i) == [kind |-> "builder", ref |-> i]
Combined(c) == [kind |-> "combined", ref |-> c]
Selectors ==
    {Builder(i) : i \in DOMAIN heap} \cup {Combined(c) : c \in DOMAIN combined}

\* a client calls cssSelectorBuilder.combine(l, token, r)
CombineCall(l, token, r) ==
    LET res == combine(heap, combined, l, token, r) IN
    /\ heap' = res.heap
    /\ combined' = res.combined
    /\ made' = IF res.ret = 0 THEN made
               ELSE Append(made, [left |-> l, token |-> token, right |-> r,
                                  ref |-> res.ret,
                                  text |-> combine_stringify(res.combined[res.ret])])
    /\ last' = [ op |-> "combine", self |-> 0, value |-> token,
                 thrown |-> res.thrown, ret |-> res.ret, res |-> "",
                 pre |-> heap, cpre |-> combined ]
    /\ UNCHANGED log

\* a client calls stringify() of combined selector c
CombinedStringifyCall(c) ==
    /\ last' = [ op |-> "combined.stringify", self |-> c, value |-> "",
                 thrown |-> "", ret |-> 0,
                 res |-> combine_stringify(combined[c]),
                 pre |-> heap, cpre |-> combined ]
    /\ UNCHANGED <<heap, combined, log, made>>

-----------------------------------------------------------------------------
(* One client building one selector: a facade call, then a chain of calls  *)
(* of any kind with any value, and stringify() at any point                *)

Create ==
    \E op \in KindSet, v \in Values :
        /\ heap = <<>>
        /\ FacadeCall(op, v)

Mutate ==
    \E i \in DOMAIN heap, op \in KindSet, v \in Values :
        /\ Len(log[i]) < MaxCalls
        /\ MethodCall(i, op, v)

Render ==
    \E i \in DOMAIN heap : StringifyCall(i)

Next == Create \/ Mutate \/ Render

Spec == Init /\ [][Next]_vars

-----------------------------------------------------------------------------
(* One client that keeps to the documented order: non-empty values, kinds  *)
(* in the order element, id, class, attr, pseudoClass, pseudoElement, and  *)
(* element, id and pseudoElement at most once                              *)

\* the call op(v) may follow the calls of lg
LegalAfter(lg, op, v) ==
    /\ v # ""
    /\ lg # <<>> => rank(lg[Len(lg)].op) <= rank(op)
    /\ op \in Singletons => \A k \in DOMAIN lg : lg[k].op # op

LegalCreate ==
    \E op \in KindSet, v \in NonEmpty :
        /\ heap = <<>>
        /\ FacadeCall(op, v)

LegalMutate ==
    \E i \in DOMAIN heap, op \in KindSet, v \in NonEmpty :
        /\ Len(log[i]) < MaxLegal
        /\ LegalAfter(log[i], op, v)
        /\ MethodCall(i, op, v)

NextLegal == LegalCreate \/ LegalMutate \/ Render

SpecLegal == Init /\ [][NextLegal]_vars

-----------------------------------------------------------------------------
(* Several clients, each building its own selector, their calls interleaved *)

RECURSIVE SumLen(_)
SumLen(lgs) == IF lgs = <<>> THEN 0 ELSE Len(Head(lgs)) + SumLen(Tail(lgs))

\* the builder calls made so far, on all objects
TotalCalls == SumLen(log)

IsoCreate ==
    \E op \in KindSet, v \in IsoValues :
        /\ Len(heap) < MaxBuilders
        /\ TotalCalls < MaxIsoCalls
        /\ FacadeCall(op, v)

IsoMutate ==
    \E i \in DOMAIN heap, op \in KindSet, v \in IsoValues :
        /\ TotalCalls < MaxIsoCalls
        /\ MethodCall(i, op, v)

NextIso == IsoCreate \/ IsoMutate \/ Render

SpecIso == Init /\ [][NextIso]_vars

-----------------------------------------------------------------------------
(* A client that builds selectors and combines them, and goes on calling  *)
(* the builders it has combined                                            *)

\* the builder calls and the combine() calls made so far
TotalOps == TotalCalls + Len(made)

CombCreate ==
    \E op \in CombKinds, v \in CombValues :
        /\ Len(heap) < MaxBuilders
        /\ TotalOps < MaxCombOps
        /\ FacadeCall(op, v)

CombMutate ==
    \E i \in DOMAIN heap, op \in CombKinds, v \in CombValues :
        /\ TotalOps < MaxCombOps
        /\ MethodCall(i, op, v)

Combine ==
    \E l \in Selectors, r \in Selectors, token \in Tokens :
        /\ Len(combined) < MaxCombined
        /\ TotalOps < MaxCombOps
        /\ CombineCall(l, token, r)

RenderCombined ==
    \E c \in DOMAIN combined : CombinedStringifyCall(c)

NextCombine == CombCreate \/ CombMutate \/ Combine \/ Render \/ RenderCombined

SpecCombine == Init /\ [][NextCombine]_vars

-----------------------------------------------------------------------------
(* A client of Rectangle and fromJSON: it makes rectangles, assigns to     *)
(* their width and height, and asks for their area                         *)

\* the JSON texts the client passes
RECURSIVE MemberSeqs(_)
MemberSeqs(n) ==
    IF n = 0 THEN {<<>>}
    ELSE MemberSeqs(n - 1) \cup
         { Append(ms, [key |-> k, value |-> Num(v)]) :
              ms \in {x \in MemberSeqs(n - 1) : Len(x) = n - 1},
              k \in Keys, v \in Numbers }

JsonTexts ==
    {[kind |-> "object", members |-> ms] : ms \in MemberSeqs(MaxMembers)}
    \cup {[kind |-> "null", members |-> <<>>],
          [kind |-> "malformed", members |-> <<>>]}

\* new Rectangle(w, h)
NewRectangle ==
    \E w \in Numbers, h \in Numbers :
        LET r == Rectangle(heap, Num(w), Num(h)) IN
        /\ Len(heap) < MaxRects
        /\ heap' = r.heap
        /\ last' = [ op |-> "Rectangle", self |-> 0, value |-> <<w, h>>,
                     thrown |-> r.thrown, ret |-> r.ret, res |-> "",
                     pre |-> heap, cpre |-> combined ]
        /\ UNCHANGED <<combined, log, made>>

\* fromJSON(Rectangle.prototype, json)
FromJSON ==
    \E json \in JsonTexts :
        LET r == fromJSON(heap, "Rectangle.prototype", json) IN
        /\ Len(heap) < MaxRects
        /\ heap' = r.heap
        /\ last' = [ op |-> "fromJSON", self |-> 0, value |-> json,
                     thrown |-> r.thrown, ret |-> r.ret, res |-> "",
                     pre |-> heap, cpre |-> combined ]
        /\ UNCHANGED <<combined, log, made>>

\* r.width = v or r.height = v
Assign ==
    \E i \in DOMAIN heap, field \in Keys, v \in Numbers :
        /\ heap' = [heap EXCEPT ![i][field] = Num(v)]
        /\ last' = [ op |-> "assign", self |-> i, value |-> <<field, v>>,
                     thrown |-> "", ret |-> 0, res |-> "",
                     pre |-> heap, cpre |-> combined ]
        /\ UNCHANGED <<combined, log, made>>

\* r.getArea()
GetArea ==
    \E i \in DOMAIN heap :
        LET r == getArea(heap, i) IN
        /\ heap' = r.heap
        /\ last' = [ op |-> "getArea", self |-> i, value |-> "",
                     thrown |-> r.thrown, ret |-> 0, res |-> r.res,
                     pre |-> heap, cpre |-> combined ]
        /\ UNCHANGED <<combined, log, made>>

NextRect == NewRectangle \/ FromJSON \/ Assign \/ GetArea

SpecRect == Init /\ [][NextRect]_vars

-----------------------------------------------------------------------------
(* Vocabulary of the properties *)

\* the calls of a log whose every argument is a non-empty string
AllNonEmpty(lg) == \A k \in DOMAIN lg : lg[k].value # ""

\* the stored value of a singleton kind
Stored(o, op) ==
    CASE op = "element"       -> o.elementTag
      [] op = "id"            -> o.elementId
      [] op = "pseudoElement" -> o.elementPseudoElement

\* the stored sequence of a repeatable kind
StoredSeq(o, op) ==
    CASE op = "class"       -> o.elementClasses
      [] op = "attr"        -> o.elementAttr
      [] op = "pseudoClass" -> o.elementPseudoClasses

Repeatable == KindSet \ Singletons

\* the six fragment fields
Fragments(o) ==
    << o.elementTag, o.elementId, o.elementClasses, o.elementAttr,
       o.elementPseudoClasses, o.elementPseudoElement >>

\* the object the last call acted on, as it was before the call (a facade
\* call acts on the object the constructor has just made)
Before == IF last.self = 0 THEN constructor ELSE last.pre[last.self]

\* what stringify() of object i returns in this state
Str(i) == stringify(heap, i).res

IsMutatingCall == last.op \in KindSet
Failed == last.thrown # ""

-----------------------------------------------------------------------------
\* C1: on a builder all of whose calls had non-empty values, once a call of
\* kind K1 has succeeded, every later call of a kind K2 of lower rank has
\* failed, whatever was called in between.
OutOfOrderFails ==
    \A i \in DOMAIN log :
        AllNonEmpty(log[i]) =>
            \A j, k \in DOMAIN log[i] :
                ( /\ j < k
                  /\ log[i][j].thrown = ""
                  /\ rank(log[i][j].op) > rank(log[i][k].op) )
                => log[i][k].thrown # ""

\* a K1 call succeeded, another call was made, then a K2 call of lower rank failed
OutOfOrderWitness ==
    \E i \in DOMAIN log :
        /\ AllNonEmpty(log[i])
        /\ \E j, k \in DOMAIN log[i] :
              /\ j + 1 < k
              /\ log[i][j].thrown = ""
              /\ log[i][j + 1].thrown = ""
              /\ rank(log[i][j].op) > rank(log[i][k].op)
              /\ log[i][k].thrown = OrderError

\* C2: after a successful call of a singleton kind with a non-empty v1, a
\* later call of the same kind with a non-empty v2 has failed, and the value
\* stored for that kind is still v1.
DuplicateSingletonFails ==
    \A i \in DOMAIN log :
        \A j, k \in DOMAIN log[i] :
            ( /\ j < k
              /\ log[i][j].op \in Singletons
              /\ log[i][k].op = log[i][j].op
              /\ log[i][j].thrown = ""
              /\ log[i][j].value # ""
              /\ log[i][k].value # "" )
            => /\ log[i][k].thrown # ""
               /\ Stored(heap[i], log[i][j].op) = log[i][j].value

\* a singleton was set to v1 and a second call with another value v2 failed
DuplicateSingletonWitness ==
    \E i \in DOMAIN log :
        \E j, k \in DOMAIN log[i] :
            /\ j < k
            /\ log[i][j].op = "pseudoElement"
            /\ log[i][k].op = "pseudoElement"
            /\ log[i][j].thrown = ""
            /\ log[i][j].value = "a"
            /\ log[i][k].value = "b"
            /\ log[i][k].thrown = DuplicateError
            /\ heap[i].elementPseudoElement = "a"

\* C3: when one of the six builder calls fails, every object has the six
\* fragment fields it had before the call, and stringify() of the receiver
\* returns what it returned before the call.
FailedCallChangesNothing ==
    (IsMutatingCall /\ Failed) =>
        /\ Len(heap) = Len(last.pre)
        /\ \A i \in DOMAIN heap : Fragments(heap[i]) = Fragments(last.pre[i])
        /\ last.self \in DOMAIN heap
        /\ Str(last.self) = stringify(last.pre, last.self).res

\* an attr call failed on a builder that already holds an attribute
FailedCallWitness ==
    /\ IsMutatingCall /\ Failed
    /\ last.op = "attr"
    /\ last.self \in DOMAIN heap
    /\ Len(heap[last.self].elementAttr) > 0
    /\ Str(last.self) # ""

\* C8: a successful builder call on an object returns that object, and the
\* object returned holds every non-empty fragment the earlier successful
\* calls of the chain applied.
ChainingReturnsThis ==
    (IsMutatingCall /\ ~Failed) =>
        /\ last.ret \in DOMAIN heap
        /\ last.self # 0 => last.ret = last.self
        /\ last.self = 0 => last.ret = Len(last.pre) + 1
        /\ \A k \in DOMAIN log[last.ret] :
              LET e == log[last.ret][k] IN
              (e.thrown = "" /\ e.value # "") =>
                  IF e.op \in Singletons
                  THEN Stored(heap[last.ret], e.op) = e.value
                  ELSE \E n \in DOMAIN StoredSeq(heap[last.ret], e.op) :
                          StoredSeq(heap[last.ret], e.op)[n] = e.value

\* the third call of a chain succeeded on the object the facade returned
ChainingWitness ==
    /\ IsMutatingCall /\ ~Failed
    /\ last.self # 0
    /\ last.ret = last.self
    /\ Len(log[last.ret]) >= 3
    /\ \A k \in DOMAIN log[last.ret] : log[last.ret][k].thrown = ""

\* C9: stringify() throws nothing, leaves every object's fields as they
\* were, and a second stringify() right after it returns the same string.
StringifyPure ==
    last.op = "stringify" =>
        /\ last.thrown = ""
        /\ heap = last.pre
        /\ Str(last.self) = last.res

\* stringify() was called on a builder a failed call had been made on, and
\* on which an empty value let a call out of the documented order succeed
StringifyWitness ==
    /\ last.op = "stringify"
    /\ last.res # ""
    /\ \E k \in DOMAIN log[last.self] : log[last.self][k].thrown # ""
    /\ \E j, k \in DOMAIN log[last.self] :
          /\ j < k
          /\ log[last.self][j].thrown = ""
          /\ log[last.self][k].thrown = ""
          /\ rank(log[last.self][j].op) > rank(log[last.self][k].op)

\* no fragment of a kind after op is held by o
NothingAfter(o, op) ==
    /\ rank(op) < rank("attr") => o.elementAttr = <<>>
    /\ rank(op) < rank("pseudoClass") => o.elementPseudoClasses = <<>>
    /\ o.elementPseudoElement = ""

\* C10: a successful class, attr or pseudoClass call appends its value at
\* the end of its kind's sequence and leaves the other five fields alone;
\* and such a call succeeds whenever no fragment of a later kind is held.
RepeatableAppends ==
    (last.op \in Repeatable) =>
        /\ ~Failed =>
              /\ StoredSeq(heap[last.ret], last.op)
                    = Append(StoredSeq(Before, last.op), last.value)
              /\ \A f \in 1..6 :
                    f # rank(last.op) + 1 =>
                        Fragments(heap[last.ret])[f] = Fragments(Before)[f]
        /\ NothingAfter(Before, last.op) => ~Failed

\* a value was appended to a sequence that held another value already
RepeatableWitness ==
    /\ last.op \in Repeatable
    /\ ~Failed
    /\ last.self # 0
    /\ Len(StoredSeq(Before, last.op)) >= 2
    /\ StoredSeq(Before, last.op)[1] # last.value
    /\ StoredSeq(heap[last.ret], last.op)[1] = StoredSeq(Before, last.op)[1]

-----------------------------------------------------------------------------
\* the calls of lg are in the documented order, each with a non-empty value
RECURSIVE Legal(_)
Legal(lg) ==
    \/ lg = <<>>
    \/ LET front == SubSeq(lg, 1, Len(lg) - 1) IN
       /\ Legal(front)
       /\ LegalAfter(front, lg[Len(lg)].op, lg[Len(lg)].value)

\* the text one fragment contributes to the selector
Piece(op, v) ==
    CASE op = "element"       -> v
      [] op = "id"            -> "#" \o v
      [] op = "class"         -> "." \o v
      [] op = "attr"          -> "[" \o v \o "]"
      [] op = "pseudoClass"   -> ":" \o v
      [] op = "pseudoElement" -> "::" \o v

\* the pieces of the calls of kind op in lg, in the order of the calls
RECURSIVE PiecesOf(_, _)
PiecesOf(lg, op) ==
    IF lg = <<>> THEN ""
    ELSE (IF Head(lg).op = op THEN Piece(op, Head(lg).value) ELSE "")
         \o PiecesOf(Tail(lg), op)

\* tag, #id, .class..., [attr]..., :pseudoClass..., ::pseudoElement
Canonical(lg) ==
    PiecesOf(lg, "element") \o PiecesOf(lg, "id") \o PiecesOf(lg, "class")
    \o PiecesOf(lg, "attr") \o PiecesOf(lg, "pseudoClass")
    \o PiecesOf(lg, "pseudoElement")

\* C4: when the calls made on a builder are in the documented order with
\* non-empty values and each singleton kind at most once, every one of them
\* succeeded and stringify() returns the canonical text of those calls.
LegalRendersCanonically ==
    \A i \in DOMAIN log :
        Legal(log[i]) =>
            /\ \A k \in DOMAIN log[i] : log[i][k].thrown = ""
            /\ Str(i) = Canonical(log[i])

\* all six kinds applied, two classes among them, and stringify() called
LegalWitness ==
    /\ last.op = "stringify"
    /\ Legal(log[last.self])
    /\ Len(log[last.self]) = 7
    /\ last.res = "a#b.a.b[a]:b::a"

-----------------------------------------------------------------------------
\* the calls of lg made one after the other on a builder nobody else uses:
\* the builder afterwards and the outcome of each call
RECURSIVE Alone(_)
Alone(lg) ==
    IF lg = <<>> THEN [obj |-> constructor, thrown |-> <<>>]
    ELSE LET front == Alone(SubSeq(lg, 1, Len(lg) - 1))
             e     == lg[Len(lg)]
             r     == Invoke(e.op, <<front.obj>>, 1, e.value)
         IN  [obj |-> r.heap[1], thrown |-> Append(front.thrown, r.thrown)]

\* the fields of a builder that holds the single fragment op(v)
OneFragment(op, v) ==
    [f \in 1..6 |->
        IF f # rank(op) + 1 THEN Fragments(constructor)[f]
        ELSE IF op \in Singletons THEN v ELSE <<v>>]

\* C7: a facade call succeeds and returns a new object that holds the one
\* fragment and nothing else, the objects that existed are left as they
\* were; and under every interleaving each builder's outcomes, fields and
\* stringify() result are those of its own calls made alone.
InstanceIsolation ==
    /\ (IsMutatingCall /\ last.self = 0) =>
          /\ ~Failed
          /\ Len(heap) = Len(last.pre) + 1
          /\ last.ret = Len(heap)
          /\ Fragments(heap[last.ret]) = OneFragment(last.op, last.value)
          /\ \A i \in DOMAIN last.pre : heap[i] = last.pre[i]
    /\ (IsMutatingCall /\ last.self # 0) =>
          \A i \in DOMAIN last.pre : i # last.self => heap[i] = last.pre[i]
    /\ Len(log) = Len(heap)
    /\ \A i \in DOMAIN heap :
          LET solo == Alone(log[i]) IN
          /\ heap[i] = solo.obj
          /\ [k \in DOMAIN log[i] |-> log[i][k].thrown] = solo.thrown
          /\ Str(i) = stringify(<<solo.obj>>, 1).res

\* builder 1 takes a tag after builder 2 was created with a tag of its own
IsolationWitness ==
    /\ Len(last.pre) = 2
    /\ last.self = 1
    /\ last.op = "element"
    /\ ~Failed
    /\ last.pre[2].elementTag = "a"
    /\ Str(1) = "a"

-----------------------------------------------------------------------------
\* what stringify() of combined selector c returns in this state
CStr(c) == combine_stringify(combined[c])

\* C5: stringify() of a combined selector returns, in every later state, the
\* string it returned when combine() returned it, whatever was called on its
\* operands and whatever was combined since.
CombineSnapshot ==
    /\ Len(made) = Len(combined)
    /\ \A c \in DOMAIN made :
          /\ made[c].ref = c
          /\ CStr(c) = made[c].text

\* a builder was combined, then given another fragment, and another combined
\* selector was made since
SnapshotWitness ==
    \E c \in DOMAIN made :
        /\ c < Len(combined)
        /\ made[c].left.kind = "builder"
        /\ Str(made[c].left.ref) # combined[c].firstSel
        /\ CStr(c) = made[c].text

\* C6: combine(left, token, right) does not fail, whatever the token and
\* whether the operands are builders or combined selectors, and stringify()
\* of its result is left.stringify(), a space, the token, a space and
\* right.stringify(), the operands rendered as they were at the call.
CombineRenders ==
    last.op = "combine" =>
        /\ ~Failed
        /\ last.ret = Len(last.cpre) + 1
        /\ last.ret \in DOMAIN combined
        /\ made[last.ret].token = last.value
        /\ CStr(last.ret)
              = Stringify(last.pre, last.cpre, made[last.ret].left).res
                \o " " \o last.value \o " "
                \o Stringify(last.pre, last.cpre, made[last.ret].right).res

\* a combined selector and a builder were combined with the token ' ':
\* three spaces stand between the operands
CombineWitness ==
    /\ last.op = "combine"
    /\ last.value = " "
    /\ made[last.ret].left.kind = "combined"
    /\ made[last.ret].right.kind = "builder"
    /\ CStr(last.ret) = "a x a   a.a"

-----------------------------------------------------------------------------
\* C11: a pseudoElement call with a non-empty value succeeds exactly when
\* the builder's elementPseudoElement is not set (is ''), whatever tag, id,
\* classes, attributes and pseudo-classes the builder holds.
PseudoElementOnlyDuplicate ==
    (last.op = "pseudoElement" /\ last.value # "") =>
        (~Failed <=> Before.elementPseudoElement = "")

\* pseudoElement succeeded on a builder that holds a tag and a pseudo-class
PseudoElementWitness ==
    /\ last.op = "pseudoElement"
    /\ last.value # ""
    /\ ~Failed
    /\ last.self # 0
    /\ Before.elementTag # ""
    /\ Before.elementPseudoClasses # <<>>
    /\ heap[last.ret].elementPseudoElement = last.value

\* C12: a failed builder call reports the duplicate error or the order
\* error; the duplicate error exactly when the call is element, id or
\* pseudoElement and the field of that kind is set, fragments of later kinds
\* present or not; the order error in every other failing case.
TwoErrorOutcomes ==
    (IsMutatingCall /\ Failed) =>
        /\ last.thrown \in {DuplicateError, OrderError}
        /\ last.thrown = DuplicateError
              <=> (last.op \in Singletons /\ Stored(Before, last.op) # "")
        /\ last.thrown = OrderError
              <=> ~(last.op \in Singletons /\ Stored(Before, last.op) # "")

\* element failed with the duplicate error on a builder that holds a tag
\* and a fragment of a later kind as well
TwoErrorsWitness ==
    /\ last.op = "element"
    /\ last.thrown = DuplicateError
    /\ Before.elementTag # ""
    /\ \/ Before.elementId # ""
       \/ Truthy0(Before.elementClasses)
       \/ Truthy0(Before.elementAttr)
       \/ Truthy0(Before.elementPseudoClasses)
       \/ Before.elementPseudoElement # ""

-----------------------------------------------------------------------------
\* the string stringify() returned right after the first j calls of lg
StrAfter(lg, j) == stringify(<<Alone(SubSeq(lg, 1, j)).obj>>, 1).res

\* C17: once a pseudoElement call with a non-empty value has succeeded on a
\* builder, every later call of the six mutating kinds on it has failed, and
\* stringify() returns the string it returned right after that call.
PseudoElementTerminal ==
    \A i \in DOMAIN log :
        \A j \in DOMAIN log[i] :
            ( /\ log[i][j].op = "pseudoElement"
              /\ log[i][j].thrown = ""
              /\ log[i][j].value # "" )
            => /\ \A k \in DOMAIN log[i] : j < k => log[i][k].thrown # ""
               /\ Str(i) = StrAfter(log[i], j)

\* after a tag and a pseudo-element, a call with an empty value failed too
TerminalWitness ==
    \E i \in DOMAIN log :
        /\ Len(log[i]) = 3
        /\ log[i][1].op = "element" /\ log[i][1].value = "a"
        /\ log[i][2].op = "pseudoElement" /\ log[i][2].value = "b"
        /\ log[i][2].thrown = ""
        /\ log[i][3].op = "pseudoClass" /\ log[i][3].value = ""
        /\ log[i][3].thrown = OrderError
        /\ Str(i) = "a::b"

-----------------------------------------------------------------------------
\* the calls of lg, each with the value v in place of its own
WithValue(lg, v) ==
    [k \in DOMAIN lg |-> [op |-> lg[k].op, value |-> v, thrown |-> lg[k].thrown]]

\* which calls of lg failed
Failures(thrown) == [k \in DOMAIN thrown |-> thrown[k] # ""]

\* C15: whether a call succeeds depends on the kinds of the calls made, not
\* on their values: the calls made on a builder fail and succeed as the same
\* kinds of calls do when every value is 'a'.
ValidationByKindsOnly ==
    \A i \in DOMAIN log :
        Failures([k \in DOMAIN log[i] |-> log[i][k].thrown])
            = Failures(Alone(WithValue(log[i], "a")).thrown)

\* the pieces of all the elements of the three sequences, and of the tag, id
\* and pseudo-element that are not ''
RendersAll(o) ==
    LET r1 == IF Truthy(o.elementTag) THEN o.elementTag ELSE ""
        r2 == IF Truthy(o.elementId) THEN r1 \o "#" \o o.elementId ELSE r1
        r3 == forEach(r2, o.elementClasses, ".", "")
        r4 == forEach(r3, o.elementAttr, "[", "]")
        r5 == forEach(r4, o.elementPseudoClasses, ":", "")
    IN  IF Truthy(o.elementPseudoElement)
        THEN r5 \o "::" \o o.elementPseudoElement ELSE r5

\* C16: stringify() writes one piece for every stored class, attribute and
\* pseudo-class, in the order stored, also when the first one stored is ''.
RendersEveryStored ==
    \A i \in DOMAIN heap : Str(i) = RendersAll(heap[i])

-----------------------------------------------------------------------------
\* stringify() of combine(combine(A, t1, B), t2, C), called in this state
LeftNested(A, t1, B, t2, C) ==
    LET inner == combine(heap, combined, A, t1, B)
        outer == combine(inner.heap, inner.combined,
                         Combined(inner.ret), t2, C)
    IN  combine_stringify(outer.combined[outer.ret])

\* stringify() of combine(A, t1, combine(B, t2, C)), called in this state
RightNested(A, t1, B, t2, C) ==
    LET inner == combine(heap, combined, B, t2, C)
        outer == combine(inner.heap, inner.combined,
                         A, t1, Combined(inner.ret))
    IN  combine_stringify(outer.combined[outer.ret])

\* what selector.stringify() returns in this state
Text(selector) == Stringify(heap, combined, selector).res

\* C18: for the operands A, B and the token t1 of the combine() call just
\* made and every selector C and token t2, combine(combine(A, t1, B), t2, C)
\* and combine(A, t1, combine(B, t2, C)) render the same string: A, t1, B,
\* t2 and C with one space between each.
NestedCombineAssociative ==
    last.op = "combine" =>
        LET A  == made[last.ret].left
            B  == made[last.ret].right
            t1 == last.value
        IN  \A C \in Selectors, t2 \in Tokens :
                /\ LeftNested(A, t1, B, t2, C) = RightNested(A, t1, B, t2, C)
                /\ LeftNested(A, t1, B, t2, C)
                      = Text(A) \o " " \o t1 \o " " \o Text(B)
                        \o " " \o t2 \o " " \o Text(C)

\* two builders that render differently were combined, and nesting either
\* way with a combined selector as third operand gives the same string
AssociativeWitness ==
    /\ last.op = "combine"
    /\ last.ret = 2
    /\ made[2].left = Builder(1)
    /\ made[2].right = Builder(2)
    /\ Text(Builder(1)) # Text(Builder(2))
    /\ LeftNested(Builder(1), last.value, Builder(2), "+", Combined(1))
          = RightNested(Builder(1), last.value, Builder(2), "+", Combined(1))
    /\ LeftNested(Builder(1), last.value, Builder(2), "+", Combined(1))
          = CStr(2) \o " + " \o CStr(1)

-----------------------------------------------------------------------------
\* function Rectangle(width, height): the names of the parameters, in order
RectangleParams == <<"width", "height">>

\* the keys of the object a JSON object text denotes, in enumeration order
KeysOf(json) ==
    LET obj == JSON_parse(json).obj IN [k \in DOMAIN obj |-> obj[k].key]

\* the text denotes an object with the constructor's parameter names as
\* keys, enumerated in another order than the parameters
KeyOrderMismatch(json) ==
    /\ json.kind = "object"
    /\ {KeysOf(json)[k] : k \in DOMAIN KeysOf(json)}
          = {RectangleParams[k] : k \in DOMAIN RectangleParams}
    /\ KeysOf(json) # RectangleParams

\* C13, as claimed: fromJSON fails when the keys of the JSON object are
\* enumerated in another order than the constructor's parameters.
FromJSONFailsOnKeyOrder ==
    (last.op = "fromJSON" /\ KeyOrderMismatch(last.value)) => Failed

\* C13, amended: when the keys of the JSON object are enumerated in another
\* order than the constructor's parameters, fromJSON does not fail: it
\* returns a new Rectangle whose width is the first value and whose height is
\* the second value in the enumeration order of the keys.
FromJSONPositional ==
    (last.op = "fromJSON" /\ KeyOrderMismatch(last.value)) =>
        LET obj == JSON_parse(last.value).obj IN
        /\ ~Failed
        /\ last.ret = Len(last.pre) + 1
        /\ heap[last.ret].width = obj[1].value
        /\ heap[last.ret].height = obj[2].value
        /\ heap[last.ret].width = Prop(obj, "height")
        /\ heap[last.ret].height = Prop(obj, "width")

\* fromJSON(Rectangle.prototype, '{"height":20,"width":10}') returned a
\* Rectangle of width 20 and height 10
FromJSONWitness ==
    /\ last.op = "fromJSON"
    /\ last.value.kind = "object"
    /\ last.value.members = << [key |-> "height", value |-> Num(20)],
                               [key |-> "width", value |-> Num(10)] >>
    /\ ~Failed
    /\ heap[last.ret].width = Num(20)
    /\ heap[last.ret].height = Num(10)

\* C14: getArea() returns the product of the width and the height the
\* object holds when it is called, whatever was assigned to them since the
\* Rectangle was made.
AreaNotCached ==
    last.op = "getArea" =>
        LET o == heap[last.self] IN
        /\ ~Failed
        /\ heap = last.pre
        /\ (o.width.type = "number" /\ o.height.type = "number")
              => last.res = Num(o.width.val * o.height.val)
        /\ (o.width.type # "number" \/ o.height.type # "number")
              => last.res = NaN

\* a Rectangle made 10 by 10 has been assigned another width and another
\* height, and getArea() returned their product
AreaWitness ==
    /\ last.op = "getArea"
    /\ heap[last.self].scope = [width |-> Num(10), height |-> Num(10)]
    /\ heap[last.self].width = Num(20)
    /\ heap[last.self].height = Num(20)
    /\ last.res = Num(400)

=============================================================================
